---------------------------- MODULE Spec2Model ----------------------------
(***************************************************************************)
(* A model of concat_files.py: the extension filter, file discovery, the   *)
(* directory-tree header and the concatenation body.                       *)
(*                                                                         *)
(* Strings are sequences of character codes, so that lower-casing, suffix  *)
(* extraction and the code-point order of sorted() are computed as Python  *)
(* computes them.  A path is the sequence of its components below "/".     *)
(***************************************************************************)
EXTENDS Integers, Sequences, FiniteSets, TLC

VARIABLES
    fs,         \* the file-system tree: a set of entries [path, kind, target]
    faults,     \* read faults of the file system: a set of [file, after]
    args,       \* the parsed command line: [paths, recursive, include, exclude]
    pc,         \* position of main: "gather", "header", "body", "done", "crashed"
    idx,        \* index of the loop main is in
    file_dict,  \* gather_all_files' results, in insertion order: <<[top, files]>>
    all_files,  \* main's combined, sorted list
    out,        \* what has been written to out_f
    err,        \* what has been printed to sys.stderr
    run,        \* which run of the tool this is (1 or 2), same arguments, same tree
    prev,       \* the first run's [out, err, pc], once it has ended
    call        \* one call of should_include_file: [name, inc, exc, ext, res, done]

vars == <<fs, faults, args, pc, idx, file_dict, all_files, out, err, run, prev, call>>

mainVars == <<fs, faults, args, pc, idx, file_dict, all_files, out, err, run, prev>>

(***************************** bounds *************************************)

\* the longest file name the filter is called with
MaxNameLen == 3

\* the most top-level paths on the command line
MaxPaths == 2

\* the number of lines of every file's content
MaxLines == 2

(***************************** strings ************************************)

DOT == 46

SLASH == 47

SPACE == 32

\* str.lower() on one character: 'A'..'Z' map to 'a'..'z'
LowerChar(c) == IF c >= 65 /\ c <= 90 THEN c + 32 ELSE c

\* str.lower()
Lower(s) == [k \in 1..Len(s) |-> LowerChar(s[k])]

\* str.rfind("."): the last index (from 1) of a dot, 0 when there is none
RFindDot(s) ==
    LET hits == {k \in 1..Len(s) : s[k] = DOT}
    IN  IF hits = {} THEN 0 ELSE CHOOSE k \in hits : \A m \in hits : m <= k

\* str.lstrip("."): every leading dot is removed
RECURSIVE LStripDot(_)
LStripDot(s) ==
    IF s # <<>> /\ Head(s) = DOT THEN LStripDot(Tail(s)) ELSE s

\* the last dot and what follows it, also when that dot leads the name
SuffixAnyDot(name) ==
    LET k == RFindDot(name)
    IN  IF k > 0 /\ k < Len(name) THEN SubSeq(name, k, Len(name)) ELSE <<>>

\* PurePath.suffix: the last dot and what follows it, unless that dot is the
\* first or the last character of the name
Suffix(name) ==
    LET k == RFindDot(name)
    IN  IF k > 1 /\ k < Len(name) THEN SubSeq(name, k, Len(name)) ELSE <<>>

\* ext = file_path.suffix.lower().lstrip(".")
ExtOf(name) == LStripDot(Lower(Suffix(name)))

\* lexicographic order of two strings by character code (str.__lt__)
RECURSIVE StrLess(_, _)
StrLess(s, t) ==
    IF t = <<>> THEN FALSE
    ELSE IF s = <<>> THEN TRUE
    ELSE IF Head(s) # Head(t) THEN Head(s) < Head(t)
    ELSE StrLess(Tail(s), Tail(t))

\* str(path) of an absolute path: "/" before every component
RECURSIVE StrOf(_)
StrOf(p) == IF p = <<>> THEN <<>> ELSE <<SLASH>> \o Head(p) \o StrOf(Tail(p))

(************************ the extension filter ****************************)

\* Python's None for an extension set, and a set that was given
None == [given |-> FALSE, set |-> {}]

Some(S) == [given |-> TRUE, set |-> S]

\* the truth value of an optional set: None and the empty set are falsy
Truthy(x) == x.given /\ x.set # {}

\* exclude is tested first and include allows what it names
ShouldIncludeIncludeWins(name, include_exts, exclude_exts) ==
    LET ext == ExtOf(name)
    IN  IF Truthy(include_exts)
        THEN ext \in include_exts.set
        ELSE ~(Truthy(exclude_exts) /\ ext \in exclude_exts.set)

should_include_file(name, include_exts, exclude_exts) ==
    LET ext == ExtOf(name)
    IN  IF Truthy(include_exts) /\ ext \notin include_exts.set THEN FALSE
        ELSE IF Truthy(exclude_exts) /\ ext \in exclude_exts.set THEN FALSE
        ELSE TRUE

(****************************** sorting ***********************************)

RECURSIVE InsertByStr(_, _)
InsertByStr(s, x) ==
    IF s = <<>> THEN <<x>>
    ELSE IF StrLess(StrOf(x), StrOf(s[Len(s)]))
         THEN Append(InsertByStr(SubSeq(s, 1, Len(s) - 1), x), s[Len(s)])
         ELSE Append(s, x)

\* the list is left in the order it was gathered in
UnsortedByStr(s) == s

\* sorted(files, key=lambda x: str(x)): stable, ascending by the path string
RECURSIVE SortedByStr(_)
SortedByStr(s) ==
    IF s = <<>> THEN <<>>
    ELSE InsertByStr(SortedByStr(SubSeq(s, 1, Len(s) - 1)), s[Len(s)])

RECURSIVE InsertName(_, _)
InsertName(s, x) ==
    IF s = <<>> THEN <<x>>
    ELSE IF StrLess(x, s[Len(s)])
         THEN Append(InsertName(SubSeq(s, 1, Len(s) - 1), x), s[Len(s)])
         ELSE Append(s, x)

\* list.sort() on a list of names
RECURSIVE SortedNames(_)
SortedNames(s) ==
    IF s = <<>> THEN <<>>
    ELSE InsertName(SortedNames(SubSeq(s, 1, Len(s) - 1)), s[Len(s)])

\* every order in which the members of a set can be enumerated
RECURSIVE PermSeqs(_)
PermSeqs(S) ==
    IF S = {} THEN {<<>>}
    ELSE UNION {{<<x>> \o p : p \in PermSeqs(S \ {x})} : x \in S}

\* every concatenation that takes one sequence from each set, in order
RECURSIVE ConcatAll(_)
ConcatAll(ss) ==
    IF ss = <<>> THEN {<<>>}
    ELSE {a \o b : a \in Head(ss), b \in ConcatAll(Tail(ss))}

(**************************** the file system *****************************)

\* the names of the tree: "d", "o", "sub", "_files", "nx", "a.py", "B.TXT",
\* "b.py", "c.py", "x.py", "l.py", "k.py"
N_d == <<100>>

N_o == <<111>>

N_sub == <<115, 117, 98>>

N_files == <<95, 102, 105, 108, 101, 115>>

N_nx == <<110, 120>>

N_a_py == <<97, 46, 112, 121>>

N_B_TXT == <<66, 46, 84, 88, 84>>

N_b_py == <<98, 46, 112, 121>>

N_c_py == <<99, 46, 112, 121>>

N_x_py == <<120, 46, 112, 121>>

N_l_py == <<108, 46, 112, 121>>

N_k_py == <<107, 46, 112, 121>>

E_txt == <<116, 120, 116>>

E_dotPY == <<46, 80, 89>>

Dir(p) == [path |-> p, kind |-> "dir", target |-> <<>>]

File(p) == [path |-> p, kind |-> "file", target |-> <<>>]

Link(p, t) == [path |-> p, kind |-> "link", target |-> t]

\* what every tree holds: /d, /d/sub, /d/_files, /o and the file /o/x.py
BaseDirs ==
    {Dir(<<N_d>>), Dir(<<N_d, N_sub>>), Dir(<<N_d, N_files>>), Dir(<<N_o>>),
     File(<<N_o, N_x_py>>)}

\* the entries a tree may hold: regular files, and two symbolic links of /d,
\* one to a file outside /d and one to a file in a subdirectory of /d
OptionalEntries ==
    {File(<<N_d, N_a_py>>), File(<<N_d, N_B_TXT>>),
     File(<<N_d, N_sub, N_b_py>>), File(<<N_d, N_files, N_c_py>>),
     Link(<<N_d, N_l_py>>, <<N_o, N_x_py>>),
     Link(<<N_d, N_k_py>>, <<N_d, N_sub, N_b_py>>)}

IsPrefix(p, q) == Len(p) <= Len(q) /\ SubSeq(q, 1, Len(p)) = p

HasEntry(p) == \E e \in fs : e.path = p

Entry(p) == CHOOSE e \in fs : e.path = p

\* Path.resolve(): a symbolic link is replaced by its target; a path that
\* does not exist resolves to itself (links of the tree are one hop)
Resolve(p) == IF HasEntry(p) /\ Entry(p).kind = "link" THEN Entry(p).target ELSE p

\* Path.exists(), Path.is_file(), Path.is_dir(): all follow symbolic links
Exists(p) == HasEntry(Resolve(p))

IsFile(p) == Exists(p) /\ Entry(Resolve(p)).kind = "file"

IsDir(p) == Exists(p) /\ Entry(Resolve(p)).kind = "dir"

\* the paths directly in directory p
Children(p) == {e.path : e \in {x \in fs : Len(x.path) = Len(p) + 1 /\ IsPrefix(p, x.path)}}

Name(p) == p[Len(p)]

MapResolve(s) == [k \in 1..Len(s) |-> Resolve(s[k])]

\* lines 93-97.  os.walk(p), top-down, followlinks=False, yields the non-
\* directories of p in the order the file system enumerates them, then walks
\* each real subdirectory in the order the file system enumerates those.  The
\* entries the filter keeps are appended in that order, so the lists the loop
\* can build are the orders of the kept entries of p followed by the lists of
\* its subdirectories in any order.
RECURSIVE WalkGather(_, _, _)
WalkGather(p, include_exts, exclude_exts) ==
    LET kept == {c \in Children(p) :
                    ~IsDir(c) /\ should_include_file(Name(c), include_exts, exclude_exts)}
        subdirs == {c \in Children(p) : Entry(c).kind = "dir"}
    IN  UNION {ConcatAll(<<{MapResolve(fo)}>>
                         \o [k \in 1..Len(so) |-> WalkGather(so[k], include_exts, exclude_exts)])
               : fo \in PermSeqs(kept), so \in PermSeqs(subdirs)}

\* lines 99-102.  Path.iterdir() yields the children of p in the order the file
\* system enumerates them; the regular files the filter keeps are appended in
\* that order.
IterdirGather(p, include_exts, exclude_exts) ==
    LET kept == {c \in Children(p) :
                    IsFile(c) /\ should_include_file(Name(c), include_exts, exclude_exts)}
    IN  {MapResolve(o) : o \in PermSeqs(kept)}

\* gather_files_for_path: every list it can return, one per enumeration order
gather_files_for_path(path, recursive, include_exts, exclude_exts) ==
    IF ~Exists(path) THEN {<<>>}
    ELSE IF IsFile(path)
         THEN {IF should_include_file(Name(path), include_exts, exclude_exts)
               THEN <<Resolve(path)>> ELSE <<>>}
    ELSE IF recursive THEN WalkGather(path, include_exts, exclude_exts)
    ELSE IterdirGather(path, include_exts, exclude_exts)

(************************* the directory tree *****************************)

\* A Python value of the tree: a dict (items: a set of [key, val]) or a list
\* of names.  Raised stands for an exception leaving the builder or printer.
EmptyDict == [t |-> "dict", items |-> {}, names |-> <<>>]

ListOf(s) == [t |-> "list", items |-> {}, names |-> s]

Raised == [t |-> "raise", items |-> {}, names |-> <<>>]

\* the key of a level's files bucket
FILES_KEY == N_files

HasKey(node, k) == \E e \in node.items : e.key = k

Get(node, k) == (CHOOSE e \in node.items : e.key = k).val

Put(node, k, v) ==
    [node EXCEPT !.items = {e \in @ : e.key # k} \cup {[key |-> k, val |-> v]}]

\* dict.setdefault(k, default): the value the key has, or the default
SetDefault(node, k, default) == IF HasKey(node, k) THEN Get(node, k) ELSE default

\* lines 161-164 for one file: walk parts[:-1] with setdefault, then append the
\* last part to the "_files" bucket.  A list has no setdefault and a dict has no
\* append: either raises AttributeError.
RECURSIVE TreeInsert(_, _)
TreeInsert(current, parts) ==
    IF current.t # "dict" THEN Raised
    ELSE IF Len(parts) = 1
    THEN LET bucket == SetDefault(current, FILES_KEY, ListOf(<<>>))
         IN  IF bucket.t # "list" THEN Raised
             ELSE Put(current, FILES_KEY, ListOf(Append(bucket.names, parts[1])))
    ELSE LET child == TreeInsert(SetDefault(current, Head(parts), EmptyDict), Tail(parts))
         IN  IF child.t = "raise" THEN Raised ELSE Put(current, Head(parts), child)

\* lines 157-164: the loop over files; f.relative_to(top_path) raises ValueError
\* when f does not lie under top_path, and parts[-1] raises on an empty path
RECURSIVE BuildTree(_, _, _)
BuildTree(tree, top_path, files) ==
    IF files = <<>> THEN tree
    ELSE LET f == Head(files)
         IN  IF ~IsPrefix(top_path, f) \/ Len(f) = Len(top_path) THEN Raised
             ELSE LET t2 == TreeInsert(tree, SubSeq(f, Len(top_path) + 1, Len(f)))
                  IN  IF t2.t = "raise" THEN Raised
                      ELSE BuildTree(t2, top_path, Tail(files))

Ok(lines) == [ok |-> TRUE, lines |-> lines]

Fail == [ok |-> FALSE, lines |-> <<>>]

SetToSeq(S) == CHOOSE q \in PermSeqs(S) : TRUE

DirLine(indent, d) == indent \o d \o <<SLASH>>

FileLines(indent, files) == [k \in 1..Len(files) |-> indent \o files[k]]

INDENT == <<SPACE, SPACE>>

RECURSIVE PrintSubdirs(_, _, _)

\* the files of a level are printed before its subdirectories
RECURSIVE PrintTreeFilesFirst(_, _)
PrintTreeFilesFirst(node, indent) ==
    LET subdirs == SortedNames(SetToSeq({e.key : e \in {x \in node.items : x.key # FILES_KEY}}))
        below == PrintSubdirs(node, subdirs, indent)
    IN  IF ~below.ok THEN Fail
        ELSE IF HasKey(node, FILES_KEY)
        THEN IF Get(node, FILES_KEY).t # "list" THEN Fail
             ELSE Ok(FileLines(indent, SortedNames(Get(node, FILES_KEY).names)) \o below.lines)
        ELSE below

\* _print_tree: the sorted subdirectories, each followed by its subtree two
\* spaces deeper, then the sorted files of the "_files" bucket; a "_files"
\* value that is a dict has no sort() and raises AttributeError
RECURSIVE _print_tree(_, _)
_print_tree(node, indent) ==
    LET subdirs == SortedNames(SetToSeq({e.key : e \in {x \in node.items : x.key # FILES_KEY}}))
        below == PrintSubdirs(node, subdirs, indent)
    IN  IF ~below.ok THEN Fail
        ELSE IF HasKey(node, FILES_KEY)
        THEN IF Get(node, FILES_KEY).t # "list" THEN Fail
             ELSE Ok(below.lines \o FileLines(indent, SortedNames(Get(node, FILES_KEY).names)))
        ELSE below

\* the loop "for d in subdirs" of _print_tree
PrintSubdirs(node, subdirs, indent) ==
    IF subdirs = <<>> THEN Ok(<<>>)
    ELSE LET sub == _print_tree(Get(node, Head(subdirs)), indent \o INDENT)
             rest == PrintSubdirs(node, Tail(subdirs), indent)
         IN  IF ~sub.ok \/ ~rest.ok THEN Fail
             ELSE Ok(<<DirLine(indent, Head(subdirs))>> \o sub.lines \o rest.lines)

\* build_directory_structure_for_files: the lines of one top-level path, or
\* Fail when building or printing the tree raises
build_directory_structure_for_files(top_path, files) ==
    IF IsFile(top_path)
    THEN Ok([k \in 1..Len(files) |-> IF Len(files) = 1 THEN Name(top_path) ELSE Name(files[k])])
    ELSE LET tree == BuildTree(EmptyDict, top_path, files)
         IN  IF tree.t = "raise" THEN Fail
             ELSE LET printed == _print_tree(tree, INDENT)
                  IN  IF ~printed.ok THEN Fail
                      ELSE Ok(<<Name(top_path) \o <<SLASH>>>> \o printed.lines)

(******************************* main *************************************)

\* what is written to out_f, one item per write of a line
Item(kind, path, text, n) == [kind |-> kind, path |-> path, text |-> text, n |-> n]

Banner == Item("banner", <<>>, <<>>, 0)

NoMatch == Item("nomatch", <<>>, <<>>, 0)

Closing == Item("closing", <<>>, <<>>, 0)

TreeLine(top_path, line) == Item("tree", top_path, line, 0)

StartOf(f) == Item("start", f, <<>>, 0)

EndOf(f) == Item("end", f, <<>>, 0)

ErrorOf(f) == Item("error", f, <<>>, 0)

\* line n of the content of file f
LineOf(f, n) == Item("line", f, <<>>, n)

\* set(e.lower().lstrip(".") for e in args.include) if args.include else None
NormExts(raw) ==
    IF raw = <<>> THEN None ELSE Some({LStripDot(Lower(raw[k])) : k \in 1..Len(raw)})

include_exts == NormExts(args.include)

exclude_exts == NormExts(args.exclude)

\* results[top_path] = ...: a key already present keeps its place
DictPut(d, k, v) ==
    IF \E j \in 1..Len(d) : d[j].top = k
    THEN [j \in 1..Len(d) |-> IF d[j].top = k THEN [top |-> k, files |-> v] ELSE d[j]]
    ELSE Append(d, [top |-> k, files |-> v])

RECURSIVE ConcatValues(_)
ConcatValues(d) == IF d = <<>> THEN <<>> ELSE Head(d).files \o ConcatValues(Tail(d))

\* the combined list, left in the order of the dictionary
AllFilesUnsorted(d) == ConcatValues(d)

\* lines 205-209: all the lists of file_dict, extended in order, then sorted
AllFiles(d) == SortedByStr(ConcatValues(d))

\* a read error loses the lines read before it
ReadFileDropsPartial(f) ==
    IF ~IsFile(f) \/ \E x \in faults : x.file = f
    THEN [lines |-> <<>>, error |-> TRUE]
    ELSE [lines |-> [n \in 1..MaxLines |-> LineOf(f, n)], error |-> FALSE]

\* lines 242-244: open(fpath) and the loop over its lines, each written as it
\* is read; open fails on a path that is no regular file, and a faulty file
\* fails after `after` lines
ReadFile(f) ==
    IF ~IsFile(f) THEN [lines |-> <<>>, error |-> TRUE]
    ELSE IF \E x \in faults : x.file = f
    THEN LET x == CHOOSE y \in faults : y.file = f
         IN  [lines |-> [n \in 1..x.after |-> LineOf(f, n)], error |-> TRUE]
    ELSE [lines |-> [n \in 1..MaxLines |-> LineOf(f, n)], error |-> FALSE]

\* lines 240-247: what one iteration of the concatenation loop writes
Block(f) ==
    LET r == ReadFile(f)
    IN  <<StartOf(f)>> \o r.lines \o (IF r.error THEN <<ErrorOf(f)>> ELSE <<>>)
        \o <<EndOf(f)>>

\* a path that does not exist ends gather_all_files' loop
GatherNextStopsAtMissing ==
    /\ pc = "gather"
    /\ idx <= Len(args.paths)
    /\ LET top_path == Resolve(args.paths[idx])
       IN  /\ err' = IF Exists(top_path) THEN err
                     ELSE Append(err, Item("warning", top_path, <<>>, 0))
           /\ \E files \in gather_files_for_path(top_path, args.recursive,
                                                 include_exts, exclude_exts) :
                  file_dict' = DictPut(file_dict, top_path, SortedByStr(files))
           /\ idx' = IF Exists(top_path) THEN idx + 1 ELSE Len(args.paths) + 1
    /\ UNCHANGED <<fs, faults, args, pc, all_files, out, run, prev, call>>

\* one iteration of gather_all_files' loop: resolve the path, gather its files
\* (warning on stderr when it does not exist) and store them sorted
GatherNext ==
    /\ pc = "gather"
    /\ idx <= Len(args.paths)
    /\ LET top_path == Resolve(args.paths[idx])
       IN  /\ err' = IF Exists(top_path) THEN err
                     ELSE Append(err, Item("warning", top_path, <<>>, 0))
           /\ \E files \in gather_files_for_path(top_path, args.recursive,
                                                 include_exts, exclude_exts) :
                  file_dict' = DictPut(file_dict, top_path, SortedByStr(files))
    /\ idx' = idx + 1
    /\ UNCHANGED <<fs, faults, args, pc, all_files, out, run, prev, call>>

\* main, lines 204-219: combine and sort, open the output, write the banner
StartOutput ==
    /\ pc = "gather"
    /\ idx > Len(args.paths)
    /\ all_files' = AllFiles(file_dict)
    /\ out' = <<Banner>>
    /\ pc' = "header"
    /\ idx' = 1
    /\ UNCHANGED <<fs, faults, args, file_dict, err, run, prev, call>>

\* one iteration of the header loop, lines 222-232: skip a path with no files,
\* else write its tree; an exception from the builder ends the run
HeaderNext ==
    /\ pc = "header"
    /\ idx <= Len(file_dict)
    /\ LET e == file_dict[idx]
           r == build_directory_structure_for_files(e.top, e.files)
       IN  IF e.files = <<>>
           THEN /\ idx' = idx + 1
                /\ UNCHANGED <<pc, out>>
           ELSE IF r.ok
           THEN /\ out' = out \o [k \in 1..Len(r.lines) |-> TreeLine(e.top, r.lines[k])]
                /\ idx' = idx + 1
                /\ pc' = pc
           ELSE /\ pc' = "crashed"
                /\ UNCHANGED <<idx, out>>
    /\ UNCHANGED <<fs, faults, args, file_dict, all_files, err, run, prev, call>>

\* lines 233-236: the placeholder when nothing was printed (something_printed
\* is set exactly when some path of file_dict has files), the closing banner
HeaderEnd ==
    /\ pc = "header"
    /\ idx > Len(file_dict)
    /\ out' = out
              \o (IF \A k \in 1..Len(file_dict) : file_dict[k].files = <<>>
                  THEN <<NoMatch>> ELSE <<>>)
              \o <<Closing>>
    /\ pc' = "body"
    /\ idx' = 1
    /\ UNCHANGED <<fs, faults, args, file_dict, all_files, err, run, prev, call>>

\* one iteration of the concatenation loop, lines 239-247
WriteFile ==
    /\ pc = "body"
    /\ idx <= Len(all_files)
    /\ out' = out \o Block(all_files[idx])
    /\ idx' = idx + 1
    /\ UNCHANGED <<fs, faults, args, pc, file_dict, all_files, err, run, prev, call>>

\* lines 249-257: the loop is over, the output is closed
Finish ==
    /\ pc = "body"
    /\ idx > Len(all_files)
    /\ pc' = "done"
    /\ UNCHANGED <<fs, faults, args, idx, file_dict, all_files, out, err, run, prev, call>>

Ended == pc \in {"done", "crashed"}

NoPrev == [out |-> <<>>, err |-> <<>>, pc |-> "none"]

\* the tool is run again with the same arguments on the unchanged tree
Rerun ==
    /\ Ended
    /\ run = 1
    /\ prev' = [out |-> out, err |-> err, pc |-> pc]
    /\ run' = 2
    /\ pc' = "gather"
    /\ idx' = 1
    /\ file_dict' = <<>>
    /\ all_files' = <<>>
    /\ out' = <<>>
    /\ err' = <<>>
    /\ UNCHANGED <<fs, faults, args, call>>

(*************************** initial states *******************************)

\* the top-level paths a command line may name: /d, /d/a.py, /nx
TopCandidates == {<<N_d>>, <<N_d, N_a_py>>, <<N_nx>>}

PathLists == UNION {[1..n -> TopCandidates] : n \in 1..MaxPaths}

\* --include / --exclude as typed: none, or
\* --include .PY --include txt --exclude txt
FilterArgs == {<<<<>>, <<>>>>, <<<<E_dotPY, E_txt>>, <<E_txt>>>>}

ArgSets ==
    {[paths |-> p, recursive |-> r, include |-> f[1], exclude |-> f[2]]
        : p \in PathLists, r \in BOOLEAN, f \in FilterArgs}

FileSystems == {BaseDirs \cup S : S \in SUBSET OptionalEntries}

\* the files whose read may fail, and after how many lines
FaultSets(tree) ==
    {{}} \cup {{[file |-> <<N_d, N_a_py>>, after |-> k]}
                 : k \in {j \in 0..(MaxLines - 1) : File(<<N_d, N_a_py>>) \in tree}}

NoCall == [name |-> <<>>, inc |-> None, exc |-> None, ext |-> <<>>, res |-> FALSE, done |-> FALSE]

Init ==
    /\ fs \in FileSystems
    /\ faults \in FaultSets(fs)
    /\ args \in ArgSets
    /\ pc = "gather"
    /\ idx = 1
    /\ file_dict = <<>>
    /\ all_files = <<>>
    /\ out = <<>>
    /\ err = <<>>
    /\ run = 1
    /\ prev = NoPrev
    /\ call = NoCall

\* one run of the tool
Next ==
    \/ GatherNext
    \/ StartOutput
    \/ HeaderNext
    \/ HeaderEnd
    \/ WriteFile
    \/ Finish

Spec == Init /\ [][Next]_vars

\* two runs of the tool, one after the other
NextTwice ==
    \/ GatherNext
    \/ StartOutput
    \/ HeaderNext
    \/ HeaderEnd
    \/ WriteFile
    \/ Finish
    \/ Rerun

SpecTwice == Init /\ [][NextTwice]_vars

(********************* the filter as a pure function **********************)

\* the characters of file names: ".", "B", "a", "b"
NameChars == {DOT, 66, 97, 98}

\* the file names the filter is called with ("." and ".." name no file)
FileNames ==
    UNION {[1..n -> NameChars] : n \in 1..MaxNameLen} \ {<<DOT>>, <<DOT, DOT>>}

\* the extensions --include / --exclude may name: "", "a", "b"
ExtChoices == {<<>>, <<97>>, <<98>>}

OptionalExtSets == {None} \cup {Some(S) : S \in SUBSET ExtChoices}

InitFilter ==
    /\ call \in {[name |-> nm, inc |-> i, exc |-> x, ext |-> <<>>, res |-> FALSE, done |-> FALSE]
                    : nm \in FileNames, i \in OptionalExtSets, x \in OptionalExtSets}
    /\ fs = {}
    /\ faults = {}
    /\ args = [paths |-> <<>>, recursive |-> FALSE, include |-> <<>>, exclude |-> <<>>]
    /\ pc = "filter"
    /\ idx = 1
    /\ file_dict = <<>>
    /\ all_files = <<>>
    /\ out = <<>>
    /\ err = <<>>
    /\ run = 1
    /\ prev = NoPrev

\* one call of should_include_file
CallShouldInclude ==
    /\ ~call.done
    /\ call' = [call EXCEPT !.ext = ExtOf(call.name),
                            !.res = should_include_file(call.name, call.inc, call.exc),
                            !.done = TRUE]
    /\ UNCHANGED mainVars

NextFilter == CallShouldInclude

SpecFilter == InitFilter /\ [][NextFilter]_vars

(************************ claims about the filter *************************)

\* the extension sets of the call, as the claims speak of them
InIncludeOrNoInclude == ~call.inc.given \/ call.inc.set = {} \/ call.ext \in call.inc.set

InExclude == call.exc.given /\ call.ext \in call.exc.set

\* C1: a file with extension e is included if and only if the include set is
\* absent, empty or contains e, and the exclude set does not contain e; an
\* extension in both sets is excluded.
C1_IncludedIff ==
    call.done => (call.res <=> (InIncludeOrNoInclude /\ ~InExclude))

\* C1's case: the extension is in both sets and the file is excluded
C1_Witness ==
    /\ call.done
    /\ call.inc.given /\ call.ext \in call.inc.set
    /\ InExclude
    /\ ~call.res

\* the positions of the dots of a string
Dots(s) == {k \in 1..Len(s) : s[k] = DOT}

\* the substring after the last "." of a string, empty when it has no "."
AfterLastDot(s) ==
    IF Dots(s) = {} THEN <<>>
    ELSE LET last == CHOOSE k \in Dots(s) : \A m \in Dots(s) : m <= k
         IN  [j \in 1..(Len(s) - last) |-> s[last + j]]

\* C8 as claimed: for every file name the extension the filter uses is the
\* lower-cased substring after the last "." of the name, empty when the name
\* has no ".", names that start with a dot included.
C8_ExtIsAfterLastDot ==
    call.done => call.ext = Lower(AfterLastDot(call.name))

\* C8 as amended: the extension is the lower-cased substring after the last "."
\* of the name, except that it is empty when the only "." of the name is its
\* first character.
C8_ExtIsAfterLastDotUnlessLeading ==
    call.done =>
        call.ext = IF Dots(call.name) = {1} THEN <<>>
                   ELSE Lower(AfterLastDot(call.name))

\* C8's case: a name such as ".b" whose only dot leads it has no extension
C8_Witness ==
    /\ call.done
    /\ Len(call.name) > 1
    /\ Dots(call.name) = {1}
    /\ call.ext = <<>>

(************************* claims about a run *****************************)

\* the concatenation body: what follows the closing banner of the header
Body ==
    LET closings == {k \in 1..Len(out) : out[k].kind = "closing"}
    IN  IF closings = {} THEN <<>>
        ELSE LET c == CHOOSE k \in closings : TRUE
             IN  [j \in 1..(Len(out) - c) |-> out[c + j]]

IsStart(item) == item.kind = "start"

\* the paths of the START lines of the body, in order
StartPaths == LET starts == SelectSeq(Body, IsStart) IN [j \in 1..Len(starts) |-> starts[j].path]

Count(seq, x) == Cardinality({k \in 1..Len(seq) : seq[k] = x})

Range(seq) == {seq[k] : k \in 1..Len(seq)}

\* the top-level paths whose gathering is over
Gathered(k) == k \in 1..Len(args.paths) /\ (pc # "gather" \/ k < idx)

\* the entry of file_dict for a top-level path
DictHas(top) == \E j \in 1..Len(file_dict) : file_dict[j].top = top

DictGet(top) == (CHOOSE e \in Range(file_dict) : e.top = top).files

PassesFilter(p) == should_include_file(Name(p), include_exts, exclude_exts)

\* what discovery has to find for an existing top-level path: the path itself
\* when it is a file, else the entries of the directory (all that lie below it,
\* or its children that are files) that pass the filter, each resolved
Discoverable(top) ==
    IF IsFile(top) THEN {f \in {top} : PassesFilter(f)}
    ELSE IF args.recursive
    THEN {Resolve(e.path) : e \in {x \in fs : /\ IsPrefix(top, x.path)
                                               /\ Len(x.path) > Len(top)
                                               /\ x.kind # "dir"
                                               /\ PassesFilter(x.path)}}
    ELSE {Resolve(e.path) : e \in {x \in fs : /\ IsPrefix(top, x.path)
                                               /\ Len(x.path) = Len(top) + 1
                                               /\ IsFile(x.path)
                                               /\ PassesFilter(x.path)}}

\* C4: a top-level path that does not exist gives a warning on stderr and no
\* files, and every other top-level path is still discovered, wherever the
\* missing one stands; when the only path is missing, the tree section is the
\* line "(No files matched the filters.)" and the body is empty.
C4_MissingPathSkipped ==
    /\ \A k \in 1..Len(args.paths) :
          Gathered(k) =>
              LET top == Resolve(args.paths[k])
              IN  /\ DictHas(top)
                  /\ ~Exists(top) =>
                        /\ DictGet(top) = <<>>
                        /\ \E w \in Range(err) : w.kind = "warning" /\ w.path = top
                  /\ Exists(top) => Range(DictGet(top)) = Discoverable(top)
    /\ (Len(args.paths) = 1 /\ ~Exists(Resolve(args.paths[1])))
          => /\ pc # "crashed"
             /\ pc = "done" => out = <<Banner, NoMatch, Closing>>

\* C4's case: the first path is missing and the second one's files are in the body
C4_Witness ==
    /\ pc = "done"
    /\ Len(args.paths) = 2
    /\ ~Exists(Resolve(args.paths[1]))
    /\ Exists(Resolve(args.paths[2]))
    /\ Len(err) = 1
    /\ Len(StartPaths) >= 2

\* every item of the body belongs to a block: START of a path, then lines and
\* at most an error line of that path, then END of that path
BlocksMatched ==
    \A k \in 1..Len(Body) :
        /\ (k = 1 \/ Body[k].kind = "start") <=> (k = 1 \/ Body[k - 1].kind = "end")
        /\ k = 1 => Body[k].kind = "start"
        /\ k = Len(Body) => Body[k].kind = "end"
        /\ Body[k].kind \in {"start", "line", "error", "end"}
        /\ Body[k].kind # "start" => Body[k].path = Body[k - 1].path
        /\ Body[k].kind = "line" => Body[k - 1].kind \in {"start", "line"}
        /\ Body[k].kind = "error" => Body[k - 1].kind \in {"start", "line"}

\* C7: the body is one block per entry of the discovered-file list (the files
\* of all top-level paths), in ascending order of the path string; each block
\* is START, content, END for one path, so the markers match and blocks never
\* interleave.
C7_BlocksInPathOrder ==
    /\ BlocksMatched
    /\ \A a, b \in 1..Len(StartPaths) :
          a < b => ~StrLess(StrOf(StartPaths[b]), StrOf(StartPaths[a]))
    /\ \A f \in Range(StartPaths) :
          Count(StartPaths, f) <= Count(ConcatValues(file_dict), f)
    /\ pc = "done" =>
          /\ Len(StartPaths) = Len(ConcatValues(file_dict))
          /\ \A f \in Range(ConcatValues(file_dict)) :
                Count(StartPaths, f) = Count(ConcatValues(file_dict), f)

\* C7's case: two top-level paths found files, and sorting changed their order
C7_Witness ==
    /\ pc = "done"
    /\ Len(file_dict) = 2
    /\ Len(StartPaths) >= 3
    /\ StartPaths # ConcatValues(file_dict)

\* the number of lines of file f that are read before its read fails
LinesBeforeFailure(f) ==
    IF \E x \in faults : x.file = f THEN (CHOOSE x \in faults : x.file = f).after ELSE 0

ReadFails(f) == ~IsFile(f) \/ \E x \in faults : x.file = f

\* the index of the START line of the block that holds item k of the body
StartBefore(k) == CHOOSE i \in 1..k : Body[i].kind = "start" /\ \A j \in (i + 1)..k : Body[j].kind # "start"

\* a failed read never ends the run: every discovered file has its block
LoopContinues ==
    /\ pc = "body" => Len(StartPaths) = idx - 1
    /\ pc = "done" => Len(StartPaths) = Len(ConcatValues(file_dict))
    /\ \A k \in 1..Len(Body) :
          Body[k].kind = "end" => (ReadFails(Body[k].path) <=> Body[k - 1].kind = "error")

\* C3 as claimed: when reading a file fails, on open or part-way, the output
\* for it is its START line, the one line "[Error reading file: ...]" in place
\* of its content, and its END line, and the loop goes on with the next file.
C3_ErrorLineReplacesContent ==
    /\ LoopContinues
    /\ \A k \in 1..Len(Body) :
          Body[k].kind = "error" =>
              /\ Body[k - 1] = StartOf(Body[k].path)
              /\ Body[k + 1] = EndOf(Body[k].path)

\* C3 as amended: when reading a file fails, the output for it is its START
\* line, the lines that were read before the failure (none when open fails),
\* the one line "[Error reading file: ...]" and its END line, and the loop goes
\* on with the next file.
C3_ErrorLineAfterLinesRead ==
    /\ LoopContinues
    /\ \A k \in 1..Len(Body) :
          Body[k].kind = "error" =>
              LET f == Body[k].path
                  s == StartBefore(k)
              IN  /\ Body[s] = StartOf(f)
                  /\ k - s - 1 = LinesBeforeFailure(f)
                  /\ \A n \in 1..(k - s - 1) : Body[s + n] = LineOf(f, n)
                  /\ Body[k + 1] = EndOf(f)

\* C3's case: a read failed after a line was written, and a later file was
\* still written
C3_Witness ==
    /\ pc = "done"
    /\ \E k \in 2..Len(Body) :
          /\ Body[k].kind = "error"
          /\ Body[k - 1].kind = "line"
          /\ \E j \in (k + 1)..Len(Body) : Body[j].kind = "start"

\* C5: two runs with the same arguments on the unchanged tree give the same
\* output, whatever order the file system enumerates directory entries in.
C5_SameOutputTwice ==
    (run = 2 /\ Ended) => (out = prev.out /\ pc = prev.pc)

\* C5's case: the second run of a recursive walk that found several files ended
C5_Witness ==
    /\ run = 2
    /\ pc = "done"
    /\ args.recursive
    /\ Cardinality(Range(StartPaths)) >= 3
    /\ out = prev.out

(************************ claims about the tree ***************************)

\* the lines of the header that were written for a top-level path
TreeText(top) ==
    LET IsTreeOfTop(item) == item.kind = "tree" /\ item.path = top
        items == SelectSeq(out, IsTreeOfTop)
    IN  [j \in 1..Len(items) |-> items[j].text]

\* the entries of file_dict whose part of the header is over
HeaderWritten(k) ==
    /\ k \in 1..Len(file_dict)
    /\ \/ pc \in {"body", "done"}
       \/ pc \in {"header", "crashed"} /\ k < idx

\* a line read back: its leading spaces, whether it names a directory, its name
IndentOf(line) ==
    CHOOSE n \in 0..Len(line) :
        /\ \A j \in 1..n : line[j] = SPACE
        /\ n = Len(line) \/ line[n + 1] # SPACE

IsDirLine(line) == line # <<>> /\ line[Len(line)] = SLASH

NameOfLine(line) ==
    SubSeq(line, IndentOf(line) + 1, Len(line) - (IF IsDirLine(line) THEN 1 ELSE 0))

DepthOf(L, i) == IndentOf(L[i]) \div 2

\* the line of the directory that line i stands in: the nearest line above it
\* that is one level less deep (line 1 is the top-level directory)
ParentIdx(L, i) ==
    LET above == {j \in 1..(i - 1) : DepthOf(L, j) = DepthOf(L, i) - 1}
    IN  IF above = {} THEN 1 ELSE CHOOSE j \in above : \A m \in above : m <= j

\* the path, below the top-level directory, that line i stands for
RECURSIVE RelOf(_, _)
RelOf(L, i) == IF i <= 1 THEN <<>> ELSE RelOf(L, ParentIdx(L, i)) \o <<NameOfLine(L[i])>>

\* the first line is the directory name, unindented; below it the indent is two
\* spaces per level, a level opens only under a directory line, and every
\* directory line is followed at once by its subtree
TreeShape(L, top) ==
    /\ Len(L) >= 1
    /\ L[1] = Name(top) \o <<SLASH>>
    /\ \A i \in 2..Len(L) :
          /\ IndentOf(L[i]) = 2 * DepthOf(L, i)
          /\ DepthOf(L, i) >= 1
          /\ DepthOf(L, i) <= DepthOf(L, i - 1) + 1
          /\ DepthOf(L, i) = DepthOf(L, i - 1) + 1 => IsDirLine(L[i - 1])
          /\ IsDirLine(L[i]) => (i < Len(L) /\ DepthOf(L, i + 1) = DepthOf(L, i) + 1)

\* the file lines are the files, each as often as it was gathered, and the
\* directory lines are the directories above them, each once
TreeEntries(L, top, files) ==
    /\ \A i \in 2..Len(L) :
          IF IsDirLine(L[i])
          THEN /\ \E f \in Range(files) :
                     IsPrefix(top \o RelOf(L, i), f) /\ f # top \o RelOf(L, i)
               /\ \A j \in 2..Len(L) :
                     (IsDirLine(L[j]) /\ RelOf(L, j) = RelOf(L, i)) => j = i
          ELSE top \o RelOf(L, i) \in Range(files)
    /\ \A f \in Range(files) :
          /\ Cardinality({i \in 2..Len(L) : ~IsDirLine(L[i]) /\ top \o RelOf(L, i) = f})
                = Count(files, f)
          /\ \A n \in (Len(top) + 1)..(Len(f) - 1) :
                \E i \in 2..Len(L) : IsDirLine(L[i]) /\ top \o RelOf(L, i) = SubSeq(f, 1, n)

\* in one directory the subdirectories come before the files, and each of the
\* two groups is in ascending order of name
SiblingsOrdered(L) ==
    \A i, j \in 2..Len(L) :
        (i < j /\ ParentIdx(L, i) = ParentIdx(L, j) /\ DepthOf(L, i) = DepthOf(L, j)) =>
            /\ IsDirLine(L[j]) => IsDirLine(L[i])
            /\ (IsDirLine(L[i]) <=> IsDirLine(L[j]))
                  => ~StrLess(NameOfLine(L[j]), NameOfLine(L[i]))

\* the scenario of the claim: /d holds a.py and sub/b.py, run with -r, no filter
ScenarioTree ==
    /\ fs = BaseDirs \cup {File(<<N_d, N_a_py>>), File(<<N_d, N_sub, N_b_py>>)}
    /\ args = [paths |-> <<<<N_d>>>>, recursive |-> TRUE, include |-> <<>>, exclude |-> <<>>]

ScenarioLines ==
    <<N_d \o <<SLASH>>,
      <<SPACE, SPACE>> \o N_sub \o <<SLASH>>,
      <<SPACE, SPACE, SPACE, SPACE>> \o N_b_py,
      <<SPACE, SPACE>> \o N_a_py>>

\* C9: the tree of a directory top-level path starts with the directory name,
\* unindented; then, depth-first, each level lists its subdirectories in
\* ascending order, each followed at once by its subtree one level deeper, then
\* its files in ascending order at the indent of those subdirectories; the
\* indent grows by two spaces per level.  For a.py and sub/b.py the lines are
\* "d/", "  sub/", "    b.py", "  a.py".
C9_TreeRendering ==
    /\ \A k \in 1..Len(file_dict) :
          (HeaderWritten(k) /\ file_dict[k].files # <<>> /\ ~IsFile(file_dict[k].top)) =>
              LET top == file_dict[k].top
                  L == TreeText(top)
              IN  /\ TreeShape(L, top)
                  /\ TreeEntries(L, top, file_dict[k].files)
                  /\ SiblingsOrdered(L)
    /\ (ScenarioTree /\ pc = "done") => TreeText(<<N_d>>) = ScenarioLines

\* C9's case: a written tree with a subdirectory and two files beside it
C9_Witness ==
    /\ pc = "done"
    /\ \E a, b, c \in 2..Len(TreeText(<<N_d>>)) :
          LET L == TreeText(<<N_d>>)
          IN  /\ a < b /\ b < c
              /\ IsDirLine(L[a]) /\ DepthOf(L, a) = 1
              /\ ~IsDirLine(L[b]) /\ DepthOf(L, b) = 1
              /\ ~IsDirLine(L[c]) /\ DepthOf(L, c) = 1

\* the files the header lists: the top-level path itself when it is a file,
\* else the paths its file lines stand for
TreeFiles ==
    UNION {IF IsFile(top) THEN {top}
           ELSE {top \o RelOf(TreeText(top), i) :
                    i \in {j \in 2..Len(TreeText(top)) : ~IsDirLine(TreeText(top)[j])}}
           : top \in {item.path : item \in {x \in Range(out) : x.kind = "tree"}}}

\* C2: when a run has ended, the files listed in the tree header are exactly
\* the files written between START and END markers in the body.
C2_TreeFilesAreBodyFiles ==
    Ended => TreeFiles = Range(StartPaths)

\* C2 for the runs that reach the end of main
C2_WhenDone ==
    pc = "done" => TreeFiles = Range(StartPaths)

\* C6: for a directory, the non-recursive result holds only regular files that
\* are direct children of it, never a file of a subdirectory, and the recursive
\* result holds every regular file at any depth below it that passes the filter.
C6_DirectChildrenOrWholeSubtree ==
    \A k \in 1..Len(args.paths) :
        (Gathered(k) /\ IsDir(Resolve(args.paths[k]))) =>
            LET top == Resolve(args.paths[k])
                files == Range(DictGet(top))
            IN  IF args.recursive
                THEN \A e \in fs :
                        (/\ e.kind = "file"
                         /\ IsPrefix(top, e.path)
                         /\ Len(e.path) > Len(top)
                         /\ PassesFilter(e.path)) => e.path \in files
                ELSE \A f \in files :
                        /\ HasEntry(f) /\ Entry(f).kind = "file"
                        /\ IsPrefix(top, f)
                        /\ Len(f) = Len(top) + 1

\* C6 with a symbolic link counted by the place of the link, not of its target
C6_ByEnumeratedEntry ==
    \A k \in 1..Len(args.paths) :
        (Gathered(k) /\ IsDir(Resolve(args.paths[k])) /\ ~args.recursive) =>
            LET top == Resolve(args.paths[k])
            IN  \A f \in Range(DictGet(top)) :
                    \E e \in fs : /\ Resolve(e.path) = f
                                  /\ IsPrefix(top, e.path)
                                  /\ Len(e.path) = Len(top) + 1
                                  /\ HasEntry(f) /\ Entry(f).kind = "file"

\* C10: for a directory top-level path, building and printing the tree never
\* raises, whatever list gather_files_for_path returned, so every run reaches
\* the concatenation body.
C10_TreeNeverRaises ==
    /\ pc # "crashed"
    /\ (pc = "header" /\ idx <= Len(file_dict) /\ IsDir(file_dict[idx].top)) =>
          build_directory_structure_for_files(file_dict[idx].top, file_dict[idx].files).ok

=============================================================================
